---- MODULE Spec2Model ----
(***************************************************************************)
(* The transaction analytics engine of the finance manager                 *)
(* (src/finance_ai.py) and the session flow that drives it (src/app.py).   *)
(*                                                                         *)
(* A Python str is a sequence of one-character strings; a DataFrame is a  *)
(* sequence of row records; the ordered dict of rules is a sequence of    *)
(* [cat, kws] entries in insertion order.  Amounts are integer cents.     *)
(* A date is <<year, month, day>>, a Month value <<year, month>>.         *)
(***************************************************************************)
EXTENDS Integers, Sequences, FiniteSets

VARIABLES
    rules,       \* st.session_state.rules
    uploaded,    \* the rows of the uploaded CSV: [Date, Description, Amount]
    df,          \* the table of the last script run, preprocessed and categorized
    humanCat,    \* the Category cells the user has typed into the data editor
    today,       \* datetime.today().date()
    budgets,     \* the sidebar's budget inputs
    question,    \* the text of the Q&A input
    min_months,  \* detect_recurring's threshold
    text,        \* the argument of normalize_text
    result,      \* what the last engine call returned
    pc,          \* which call that was
    clicks       \* how many times "Add rule" was clicked

vars == <<rules, uploaded, df, humanCat, today, budgets, question, min_months,
          text, result, pc, clicks>>

(***************************************************************************)
(* Strings                                                                 *)
(***************************************************************************)
UpperChars == <<"A", "B", "C", "D", "E", "F", "G", "H", "I", "J", "K", "L", "M", "N", "O", "P", "Q", "R", "S", "T", "U", "V", "W", "X", "Y", "Z">>

LowerChars == <<"a", "b", "c", "d", "e", "f", "g", "h", "i", "j", "k", "l", "m", "n", "o", "p", "q", "r", "s", "t", "u", "v", "w", "x", "y", "z">>

Digits == <<"0", "1", "2", "3", "4", "5", "6", "7", "8", "9">>

Range(s) == {s[i] : i \in DOMAIN s}

\* the lowercase letter of every uppercase letter
LowerOf == [c \in Range(UpperChars) |->
               LowerChars[CHOOSE i \in DOMAIN UpperChars : UpperChars[i] = c]]

\* str.lower(), one character
LowerChar(c) == IF c \in DOMAIN LowerOf THEN LowerOf[c] ELSE c

\* str.lower()
Lower(s) == [i \in DOMAIN s |-> LowerChar(s[i])]

\* the characters \s matches and str.strip() removes
IsSpace(c) == c \in {" ", "\t", "\n"}

\* the class [a-z0-9 ]
KeptChars == Range(LowerChars) \cup Range(Digits) \cup {" "}

IsKept(c) == c \in KeptChars

RECURSIVE LStrip(_)
LStrip(s) == IF s # <<>> /\ IsSpace(Head(s)) THEN LStrip(Tail(s)) ELSE s

RECURSIVE RStrip(_)
RStrip(s) ==
    IF s # <<>> /\ IsSpace(s[Len(s)]) THEN RStrip(SubSeq(s, 1, Len(s) - 1)) ELSE s

\* str.strip()
Strip(s) == RStrip(LStrip(s))

\* re.sub(r"[^a-z0-9 ]+", " ", s): every maximal run of characters outside
\* the class becomes one space
RECURSIVE SubNotKept(_)
SubNotKept(s) ==
    IF s = <<>> THEN <<>>
    ELSE IF ~IsKept(Head(s))
         THEN IF Len(s) > 1 /\ ~IsKept(s[2])
              THEN SubNotKept(Tail(s))
              ELSE <<" ">> \o SubNotKept(Tail(s))
         ELSE <<Head(s)>> \o SubNotKept(Tail(s))

\* re.sub(r"\s+", " ", s): every maximal run of whitespace becomes one space
RECURSIVE SubSpaces(_)
SubSpaces(s) ==
    IF s = <<>> THEN <<>>
    ELSE IF IsSpace(Head(s))
         THEN IF Len(s) > 1 /\ IsSpace(s[2])
              THEN SubSpaces(Tail(s))
              ELSE <<" ">> \o SubSpaces(Tail(s))
         ELSE <<Head(s)>> \o SubSpaces(Tail(s))

normalize_text(s) ==
    LET s1 == Strip(Lower(s))
        s2 == SubNotKept(s1)
        s3 == SubSpaces(s2)
    IN  s3

\* kw in text
Contains(txt, kw) ==
    \E i \in 0..(Len(txt) - Len(kw)) : SubSeq(txt, i + 1, i + Len(kw)) = kw

(***************************************************************************)
(* Category rule engine                                                    *)
(***************************************************************************)
IncomeLabel == <<"I", "n", "c", "o", "m", "e">>

OtherLabel == <<"O", "t", "h", "e", "r">>

default_category_rules == <<
    [cat |-> <<"G", "r", "o", "c", "e", "r", "i", "e", "s">>,
     kws |-> <<<<"w", "a", "l", "m", "a", "r", "t">>, <<"a", "l", "d", "i">>, <<"k", "r", "o", "g", "e", "r">>, <<"w", "h", "o", "l", "e", " ", "f", "o", "o", "d", "s">>, <<"s", "a", "f", "e", "w", "a", "y">>, <<"i", "n", "s", "t", "a", "c", "a", "r", "t">>>>],
    [cat |-> <<"D", "i", "n", "i", "n", "g">>,
     kws |-> <<<<"m", "c", "d", "o", "n", "a", "l", "d">>, <<"b", "u", "r", "g", "e", "r", " ", "k", "i", "n", "g">>, <<"k", "f", "c">>, <<"c", "h", "i", "p", "o", "t", "l", "e">>, <<"s", "t", "a", "r", "b", "u", "c", "k", "s">>, <<"u", "b", "e", "r", "e", "a", "t", "s">>, <<"d", "o", "o", "r", "d", "a", "s", "h">>>>],
    [cat |-> <<"T", "r", "a", "n", "s", "p", "o", "r", "t">>,
     kws |-> <<<<"u", "b", "e", "r">>, <<"l", "y", "f", "t">>, <<"s", "h", "e", "l", "l">>, <<"c", "h", "e", "v", "r", "o", "n">>, <<"e", "x", "x", "o", "n">>, <<"b", "p">>, <<"m", "e", "t", "r", "o">>>>],
    [cat |-> <<"U", "t", "i", "l", "i", "t", "i", "e", "s">>,
     kws |-> <<<<"c", "o", "m", "c", "a", "s", "t">>, <<"x", "f", "i", "n", "i", "t", "y">>, <<"v", "e", "r", "i", "z", "o", "n">>, <<"a", "t", "a", "n", "d", "t">>, <<"e", "l", "e", "c", "t", "r", "i", "c">>, <<"w", "a", "t", "e", "r">>, <<"g", "a", "s", " ", "b", "i", "l", "l">>>>],
    [cat |-> <<"S", "h", "o", "p", "p", "i", "n", "g">>,
     kws |-> <<<<"a", "m", "a", "z", "o", "n">>, <<"t", "a", "r", "g", "e", "t">>, <<"b", "e", "s", "t", " ", "b", "u", "y">>, <<"w", "a", "l", "m", "a", "r", "t", ".", "c", "o", "m">>, <<"c", "o", "s", "t", "c", "o">>>>],
    [cat |-> <<"E", "n", "t", "e", "r", "t", "a", "i", "n", "m", "e", "n", "t">>,
     kws |-> <<<<"n", "e", "t", "f", "l", "i", "x">>, <<"s", "p", "o", "t", "i", "f", "y">>, <<"h", "u", "l", "u">>, <<"s", "t", "e", "a", "m">>, <<"p", "l", "a", "y", "s", "t", "a", "t", "i", "o", "n">>>>],
    [cat |-> <<"H", "e", "a", "l", "t", "h">>,
     kws |-> <<<<"c", "v", "s">>, <<"w", "a", "l", "g", "r", "e", "e", "n", "s">>, <<"r", "i", "t", "e", " ", "a", "i", "d">>, <<"p", "h", "a", "r", "m", "a", "c", "y">>, <<"d", "e", "n", "t", "a", "l">>, <<"c", "l", "i", "n", "i", "c">>>>],
    [cat |-> <<"H", "o", "u", "s", "i", "n", "g">>,
     kws |-> <<<<"r", "e", "n", "t">>, <<"m", "o", "r", "t", "g", "a", "g", "e">>, <<"l", "a", "n", "d", "l", "o", "r", "d">>>>],
    [cat |-> IncomeLabel,
     kws |-> <<<<"p", "a", "y", "r", "o", "l", "l">>, <<"s", "a", "l", "a", "r", "y">>, <<"d", "i", "r", "e", "c", "t", " ", "d", "e", "p", "o", "s", "i", "t">>, <<"s", "t", "r", "i", "p", "e">>, <<"p", "a", "y", "p", "a", "l">>>>],
    [cat |-> OtherLabel, kws |-> <<>>] >>

\* the position of key cat in the dict, 0 when it has none
KeyIndex(rs, cat) ==
    IF \E k \in DOMAIN rs : rs[k].cat = cat
    THEN CHOOSE k \in DOMAIN rs : rs[k].cat = cat
    ELSE 0

\* rules.get(cat, [])
RulesGet(rs, cat) == IF KeyIndex(rs, cat) = 0 THEN <<>> ELSE rs[KeyIndex(rs, cat)].kws

\* for kw in kws: if kw in text
AnyKeywordIn(kws, txt) == \E j \in DOMAIN kws : Contains(txt, kws[j])

\* the expense loop: the first entry, Income skipped, with a keyword in txt
RECURSIVE ExpenseScan(_, _)
ExpenseScan(rs, txt) ==
    IF rs = <<>> THEN OtherLabel
    ELSE IF Head(rs).cat # IncomeLabel /\ AnyKeywordIn(Head(rs).kws, txt)
         THEN Head(rs).cat
         ELSE ExpenseScan(Tail(rs), txt)

\* a variant whose expense loop has no early return: the last match wins
RECURSIVE LastMatchScan(_, _, _)
LastMatchScan(rs, txt, found) ==
    IF rs = <<>> THEN found
    ELSE IF Head(rs).cat # IncomeLabel /\ AnyKeywordIn(Head(rs).kws, txt)
         THEN LastMatchScan(Tail(rs), txt, Head(rs).cat)
         ELSE LastMatchScan(Tail(rs), txt, found)

categorize_row_last_match(desc, amount, rs) ==
    LET txt == normalize_text(desc)
    IN  IF amount > 0 THEN <<IncomeLabel, txt>>
        ELSE <<LastMatchScan(rs, txt, OtherLabel), txt>>

\* a variant that takes a positive amount for income only on a keyword match
categorize_row_income_gated(desc, amount, rs) ==
    LET txt == normalize_text(desc)
    IN  IF amount > 0 /\ AnyKeywordIn(RulesGet(rs, IncomeLabel), txt)
        THEN <<IncomeLabel, txt>>
        ELSE <<ExpenseScan(rs, txt), txt>>

\* a variant that matches the keywords against the lowercased description
categorize_row_raw_text(desc, amount, rs) ==
    LET txt == normalize_text(desc)
    IN  IF amount > 0 THEN <<IncomeLabel, txt>>
        ELSE <<ExpenseScan(rs, Lower(desc)), txt>>

categorize_row(desc, amount, rs) ==
    LET txt == normalize_text(desc)
    IN  IF amount > 0
        THEN IF AnyKeywordIn(RulesGet(rs, IncomeLabel), txt)
             THEN <<IncomeLabel, txt>>
             ELSE <<IncomeLabel, txt>>
        ELSE <<ExpenseScan(rs, txt), txt>>

categorize_transactions(table, rs) ==
    [i \in DOMAIN table |->
        LET r == categorize_row(table[i].Description, table[i].Amount, rs)
        IN  [Date |-> table[i].Date, Description |-> table[i].Description,
             Amount |-> table[i].Amount, Month |-> table[i].Month,
             Category |-> r[1], Normalized |-> r[2]]]

(***************************************************************************)
(* Recurring charge detector                                               *)
(***************************************************************************)
Abs(n) == IF n < 0 THEN -n ELSE n

\* Series.round(0) of a non-negative amount of cents: whole dollars, a half
\* going to the even neighbour
Round0(cents) ==
    LET q == cents \div 100
        r == cents % 100
    IN  IF r < 50 THEN q
        ELSE IF r > 50 THEN q + 1
        ELSE IF q % 2 = 0 THEN q ELSE q + 1

\* the characters of the model in the order of their code points
CharOrder == <<" ", "#", "*", "-", ".", "0", "1", "2", "3", "4", "5", "6", "7", "8", "9", "A", "B", "C", "D", "E", "F", "G", "H", "I", "J", "K", "L", "M", "N", "O", "P", "Q", "R", "S", "T", "U", "V", "W", "X", "Y", "Z", "a", "b", "c", "d", "e", "f", "g", "h", "i", "j", "k", "l", "m", "n", "o", "p", "q", "r", "s", "t", "u", "v", "w", "x", "y", "z">>

RankOf == [c \in Range(CharOrder) |-> CHOOSE i \in DOMAIN CharOrder : CharOrder[i] = c]

CharRank(c) == IF c \in DOMAIN RankOf THEN RankOf[c] ELSE 0

\* a < b for str
RECURSIVE StrLess(_, _)
StrLess(a, b) ==
    IF b = <<>> THEN FALSE
    ELSE IF a = <<>> THEN TRUE
    ELSE IF Head(a) = Head(b) THEN StrLess(Tail(a), Tail(b))
    ELSE CharRank(Head(a)) < CharRank(Head(b))

\* the keys of groupby(["Normalized", "Rounded"]) over the outflow rows
RecurringKeys(table) ==
    {<<table[i].Normalized, Round0(Abs(table[i].Amount))>> :
        i \in {j \in DOMAIN table : table[j].Amount < 0}}

\* ["Month"].nunique() of one group
MonthsOfKey(table, key) ==
    {table[i].Month :
        i \in {j \in DOMAIN table :
                  /\ table[j].Amount < 0
                  /\ table[j].Normalized = key[1]
                  /\ Round0(Abs(table[j].Amount)) = key[2]}}

\* the rows of one group
RowsOfKey(table, key) ==
    {j \in DOMAIN table :
        /\ table[j].Amount < 0
        /\ table[j].Normalized = key[1]
        /\ Round0(Abs(table[j].Amount)) = key[2]}

KeyLess(a, b) == StrLess(a[1], b[1]) \/ (a[1] = b[1] /\ a[2] < b[2])

\* the keys in groupby's order: by Normalized, then by Rounded
RECURSIVE SortKeys(_)
SortKeys(keys) ==
    IF keys = {} THEN <<>>
    ELSE LET m == CHOOSE k \in keys : \A o \in keys \ {k} : KeyLess(k, o)
         IN  <<m>> \o SortKeys(keys \ {m})

\* a variant that counts the rows of a group instead of its distinct months
detect_recurring_row_count(table, min) ==
    LET kept == {k \in RecurringKeys(table) :
                    Cardinality(RowsOfKey(table, k)) >= min}
        order == SortKeys(kept)
    IN  [i \in DOMAIN order |->
            [Normalized |-> order[i][1], Rounded |-> order[i][2],
             Month |-> Cardinality(RowsOfKey(table, order[i]))]]

detect_recurring(table, min) ==
    LET kept == {k \in RecurringKeys(table) :
                    Cardinality(MonthsOfKey(table, k)) >= min}
        order == SortKeys(kept)
    IN  [i \in DOMAIN order |->
            [Normalized |-> order[i][1], Rounded |-> order[i][2],
             Month |-> Cardinality(MonthsOfKey(table, order[i]))]]

(***************************************************************************)
(* Anomaly detector                                                        *)
(***************************************************************************)
RECURSIVE SeqSum(_)
SeqSum(s) == IF s = <<>> THEN 0 ELSE Head(s) + SeqSum(Tail(s))

\* grp["Abs"] of one category: the absolute amounts of its outflow rows
GroupAbs(table, cat) ==
    LET InGroup(r) == r.Amount < 0 /\ r.Category = cat
        grp == SelectSeq(table, InGroup)
    IN  [i \in DOMAIN grp |-> Abs(grp[i].Amount)]

\* With n = len(grp), S = sum(Abs) and Q = sum(Abs^2): Abs - mean is
\* (n*x - S)/n and the population variance is (n*Q - S^2)/n^2, so that
\* z^2 = (n*x - S)^2 / (n*Q - S^2); a zero deviation gives std = 1.0 and z = 0.
\* ZSquared is that fraction <<numerator, denominator>>, <<0, 1>> for z <= 0.
ZSquared(x, abs) ==
    LET n == Len(abs)
        S == SeqSum(abs)
        Q == SeqSum([i \in DOMAIN abs |-> abs[i] * abs[i]])
        V == n * Q - S * S
    IN  IF V = 0 \/ n * x <= S THEN <<0, 1>>
        ELSE <<(n * x - S) * (n * x - S), V>>

\* the same with the sample variance (ddof = 1), (n*Q - S^2)/(n*(n-1))
ZSquaredSample(x, abs) ==
    LET n == Len(abs)
        S == SeqSum(abs)
        Q == SeqSum([i \in DOMAIN abs |-> abs[i] * abs[i]])
        V == n * Q - S * S
    IN  IF V = 0 \/ n * x <= S THEN <<0, 1>>
        ELSE <<(n - 1) * (n * x - S) * (n * x - S), n * V>>

\* the z threshold 2.5 as ZNum / ZDen
ZNum == 5

ZDen == 2

\* len(grp) < MinSample: the category is skipped
MinSample == 5

\* z > 2.5, for z >= 0 given as z^2
OverThreshold(zz) == ZDen * ZDen * zz[1] > ZNum * ZNum * zz[2]

\* z1 > z2
ZGreater(zz1, zz2) == zz1[1] * zz2[2] > zz2[1] * zz1[2]

\* the row's z within its category, as z^2
RowZ(table, i) == ZSquared(Abs(table[i].Amount), GroupAbs(table, table[i].Category))

RowZSample(table, i) ==
    ZSquaredSample(Abs(table[i].Amount), GroupAbs(table, table[i].Category))

\* a variant that uses Series.std()'s default, the sample standard deviation
FlaggedSample(table, i) ==
    /\ table[i].Amount < 0
    /\ Len(GroupAbs(table, table[i].Category)) >= MinSample
    /\ OverThreshold(RowZSample(table, i))

\* is row i one of the flagged rows of its category's group
Flagged(table, i) ==
    /\ table[i].Amount < 0
    /\ Len(GroupAbs(table, table[i].Category)) >= MinSample
    /\ OverThreshold(RowZ(table, i))

\* row i comes before row j in pd.concat(res): groups in the order of their
\* category label, rows in table order
ConcatBefore(table, i, j) ==
    \/ StrLess(table[i].Category, table[j].Category)
    \/ table[i].Category = table[j].Category /\ i < j

\* sort_values("Z", ascending=False) of the flagged rows; equal Z keep the
\* order of the concatenation
RECURSIVE SortByZ(_, _)
SortByZ(table, idx) ==
    IF idx = {} THEN <<>>
    ELSE LET m == CHOOSE i \in idx : \A j \in idx \ {i} :
                      \/ ZGreater(RowZ(table, i), RowZ(table, j))
                      \/ ~ZGreater(RowZ(table, j), RowZ(table, i))
                         /\ ConcatBefore(table, i, j)
         IN  <<m>> \o SortByZ(table, idx \ {m})

\* the flagged rows with their Z (as z^2), highest first
detect_anomalies(table) ==
    LET order == SortByZ(table, {i \in DOMAIN table : Flagged(table, i)})
    IN  [k \in DOMAIN order |-> [Row |-> order[k], Description |-> table[order[k]].Description,
                                 Amount |-> table[order[k]].Amount,
                                 Category |-> table[order[k]].Category,
                                 Z |-> RowZ(table, order[k])]]

(***************************************************************************)
(* Dates                                                                   *)
(***************************************************************************)
\* None, for a (start, end) that month_range could not resolve
None == <<>>

IsLeap(y) == (y % 4 = 0 /\ y % 100 # 0) \/ y % 400 = 0

DaysInMonth(y, m) ==
    IF m = 2 THEN (IF IsLeap(y) THEN 29 ELSE 28)
    ELSE IF m \in {4, 6, 9, 11} THEN 30 ELSE 31

\* d - timedelta(days=1)
MinusOneDay(d) ==
    IF d[3] > 1 THEN <<d[1], d[2], d[3] - 1>>
    ELSE IF d[2] > 1 THEN <<d[1], d[2] - 1, DaysInMonth(d[1], d[2] - 1)>>
    ELSE <<d[1] - 1, 12, 31>>

\* a <= b for dates
DateLE(a, b) ==
    \/ a[1] < b[1]
    \/ a[1] = b[1] /\ a[2] < b[2]
    \/ a[1] = b[1] /\ a[2] = b[2] /\ a[3] <= b[3]

MonthNames == <<<<"j", "a", "n", "u", "a", "r", "y">>, <<"f", "e", "b", "r", "u", "a", "r", "y">>, <<"m", "a", "r", "c", "h">>, <<"a", "p", "r", "i", "l">>, <<"m", "a", "y">>, <<"j", "u", "n", "e">>, <<"j", "u", "l", "y">>,
                <<"a", "u", "g", "u", "s", "t">>, <<"s", "e", "p", "t", "e", "m", "b", "e", "r">>, <<"o", "c", "t", "o", "b", "e", "r">>, <<"n", "o", "v", "e", "m", "b", "e", "r">>, <<"d", "e", "c", "e", "m", "b", "e", "r">>>>

\* short = [m[:3] for m in months]
ShortNames == [i \in DOMAIN MonthNames |-> SubSeq(MonthNames[i], 1, 3)]

\* list.index(x)
IndexOf(s, x) == CHOOSE i \in DOMAIN s : s[i] = x /\ \A j \in 1..(i - 1) : s[j] # x

\* a variant of "last month" that steps the month back and keeps the year
month_range_same_year(label, td) ==
    IF Lower(label) = <<"l", "a", "s", "t", " ", "m", "o", "n", "t", "h">>
    THEN LET m == IF td[2] = 1 THEN 12 ELSE td[2] - 1
         IN  <<<<td[1], m, 1>>, <<td[1], m, DaysInMonth(td[1], m)>>>>
    ELSE <<None, None>>

\* month_range(label, today), today being given
month_range(label, td) ==
    LET lbl == Lower(label)
    IN  IF lbl = <<"l", "a", "s", "t", " ", "m", "o", "n", "t", "h">>
        THEN LET first == <<td[1], td[2], 1>>
                 last_month_last_day == MinusOneDay(first)
                 first_last == <<last_month_last_day[1], last_month_last_day[2], 1>>
             IN  <<first_last, last_month_last_day>>
        ELSE IF lbl \in Range(MonthNames) \/ lbl \in Range(ShortNames)
        THEN LET idx == IF lbl \in Range(MonthNames) THEN IndexOf(MonthNames, lbl) - 1
                        ELSE IndexOf(ShortNames, lbl) - 1
                 year == td[1]
                 first == <<year, idx + 1, 1>>
                 end == IF idx + 1 = 12 THEN MinusOneDay(<<year + 1, 1, 1>>)
                        ELSE MinusOneDay(<<year, idx + 2, 1>>)
             IN  <<first, end>>
        ELSE <<None, None>>

(***************************************************************************)
(* Insight generator                                                       *)
(***************************************************************************)
\* the labels of a table's rows, each once, smallest first
RECURSIVE SortLabels(_)
SortLabels(labels) ==
    IF labels = {} THEN <<>>
    ELSE LET m == CHOOSE c \in labels : \A o \in labels \ {c} : StrLess(c, o)
         IN  <<m>> \o SortLabels(labels \ {m})

\* groupby("Category")["Abs"].sum() over the outflow rows of these months:
\* the value of one label
GroupSum(table, cat, months) ==
    LET InGroup(r) == r.Amount < 0 /\ r.Category = cat /\ r.Month \in months
        grp == SelectSeq(table, InGroup)
    IN  SeqSum([i \in DOMAIN grp |-> Abs(grp[i].Amount)])

\* the labels of the outflow rows of these months, in groupby's order
GroupLabels(table, months) ==
    SortLabels({table[i].Category :
                   i \in {j \in DOMAIN table :
                             table[j].Amount < 0 /\ table[j].Month \in months}})

AllMonths(table) == {table[i].Month : i \in DOMAIN table}

\* sort_values(ascending=False): the labels by their sum, largest first, equal
\* sums in groupby's order
RECURSIVE SortBySum(_, _, _)
SortBySum(table, months, labels) ==
    IF labels = {} THEN <<>>
    ELSE LET m == CHOOSE c \in labels : \A o \in labels \ {c} :
                      \/ GroupSum(table, c, months) > GroupSum(table, o, months)
                      \/ GroupSum(table, c, months) = GroupSum(table, o, months)
                         /\ StrLess(c, o)
         IN  <<m>> \o SortBySum(table, months, labels \ {m})

\* .head(n)
HeadN(s, n) == SubSeq(s, 1, IF Len(s) < n THEN Len(s) ELSE n)

\* head(3) of the top categories
TopCount == 3

\* head(5) of the recurring names
NamesCount == 5

\* detect_recurring's default min_months
DefaultMinMonths == 3

\* budgets.get(c, 0.0) or 0.0
BudgetGet(bud, c) == IF c \in DOMAIN bud THEN bud[c] ELSE 0

\* a variant without the b > 0 guard
IsOverUnguarded(val, b) == val > b

\* a variant that flags a category that has spent its budget exactly
IsOverInclusive(val, b) == b > 0 /\ val >= b

\* if b > 0 and val > b
IsOver(val, b) == b > 0 /\ val > b

\* the over list: for c, val in agg.items(), with ${val-b:,.0f}
OverList(table, bud, cur_month) ==
    LET IsOverLabel(c) == IsOver(GroupSum(table, c, {cur_month}), BudgetGet(bud, c))
        labels == SelectSeq(GroupLabels(table, {cur_month}), IsOverLabel)
    IN  [i \in DOMAIN labels |->
            [Category |-> labels[i],
             Over |-> Round0(GroupSum(table, labels[i], {cur_month})
                             - BudgetGet(bud, labels[i]))]]

\* generate_insights(df, budgets), today being given: the insight lines, each
\* with the values its text is made of
generate_insights(table, bud, td) ==
    LET HasSpend == \E i \in DOMAIN table : table[i].Amount < 0
        all == AllMonths(table)
        top == HeadN(SortBySum(table, all, Range(GroupLabels(table, all))), TopCount)
        topLine == <<[kind |-> "Top spending categories",
                      items |-> [i \in DOMAIN top |->
                                    [Category |-> top[i],
                                     Dollars |-> Round0(GroupSum(table, top[i], all))]]]>>
        cur_month == <<td[1], td[2]>>
        over == OverList(table, bud, cur_month)
        budgetLine == IF over # <<>>
                      THEN <<[kind |-> "Budget alerts", items |-> over]>>
                      ELSE <<>>
        rec == detect_recurring(table, DefaultMinMonths)
        names == HeadN([i \in DOMAIN rec |-> rec[i].Normalized], NamesCount)
        recLine == IF rec # <<>>
                   THEN <<[kind |-> "Possible recurring subscriptions", items |-> names]>>
                   ELSE <<>>
        an == detect_anomalies(table)
        anLine == IF an # <<>>
                  THEN <<[kind |-> "Unusual spend",
                          items |-> <<[Description |-> an[1].Description,
                                       Dollars |-> Round0(Abs(an[1].Amount)),
                                       Category |-> an[1].Category]>>]>>
                  ELSE <<>>
    IN  IF HasSpend
        THEN topLine \o budgetLine \o recLine \o anLine
        ELSE <<[kind |-> "No spending rows found", items |-> <<>>]>>

(***************************************************************************)
(* Question resolver                                                       *)
(***************************************************************************)
\* df["Category"].unique(): the labels in the order of their first row
RECURSIVE Unique(_, _)
Unique(s, seen) ==
    IF s = <<>> THEN <<>>
    ELSE IF Head(s) \in seen THEN Unique(Tail(s), seen)
    ELSE <<Head(s)>> \o Unique(Tail(s), seen \cup {Head(s)})

\* the first element of s that q contains, None when there is none
RECURSIVE FirstIn(_, _)
FirstIn(s, q) ==
    IF s = <<>> THEN None
    ELSE IF Contains(q, Head(s)) THEN Head(s)
    ELSE FirstIn(Tail(s), q)

\* cats_lower = {c.lower(): c for c in cats}: the keys in insertion order
LowerKeys(cats) == Unique([i \in DOMAIN cats |-> Lower(cats[i])], {})

\* cats_lower[key]: the last label with this lowercase form
LowerValue(cats, key) ==
    cats[CHOOSE i \in DOMAIN cats :
             Lower(cats[i]) = key /\ \A j \in (i + 1)..Len(cats) : Lower(cats[j]) # key]

\* the names the time scan tries, in its order
ScanNames == ShortNames \o MonthNames

\* answer_question(df, question), today being given: which sentence it
\* returns and the amount, in cents, that the sentence shows to two decimals
answer_question(table, qtext, td) ==
    LET q == Lower(qtext)
        cats == Unique([i \in DOMAIN table |-> table[i].Category], {})
        key == FirstIn(LowerKeys(cats), q)
        cat_hit == IF key = None THEN None ELSE LowerValue(cats, key)
        when == IF Contains(q, <<"l", "a", "s", "t", " ", "m", "o", "n", "t", "h">>) THEN <<"l", "a", "s", "t", " ", "m", "o", "n", "t", "h">>
                ELSE FirstIn(ScanNames, q)
        InCat(r) == Lower(r.Category) = Lower(cat_hit)
        subset1 == IF cat_hit # None THEN SelectSeq(table, InCat) ELSE table
        range == IF when # None THEN month_range(when, td) ELSE <<None, None>>
        InRange(r) == DateLE(range[1], r.Date) /\ DateLE(r.Date, range[2])
        subset == IF when # None /\ range[1] # None /\ range[2] # None
                  THEN SelectSeq(subset1, InRange)
                  ELSE subset1
        IsSpend(r) == r.Amount < 0
        IsIncome(r) == r.Amount > 0
        spendRows == SelectSeq(subset, IsSpend)
        incomeRows == SelectSeq(subset, IsIncome)
        spend == SeqSum([i \in DOMAIN spendRows |-> spendRows[i].Amount])
        income == SeqSum([i \in DOMAIN incomeRows |-> incomeRows[i].Amount])
    IN  IF Contains(q, <<"s", "p", "e", "n", "d">>) \/ Contains(q, <<"s", "p", "e", "n", "t">>) \/ Contains(q, <<"c", "o", "s", "t">>)
        THEN [kind |-> "You spent", cents |-> -spend]
        ELSE IF Contains(q, <<"i", "n", "c", "o", "m", "e">>) \/ Contains(q, <<"e", "a", "r", "n">>) \/ Contains(q, <<"m", "a", "d", "e">>)
        THEN [kind |-> "Income", cents |-> income]
        ELSE [kind |-> "Net total", cents |-> income + spend]

(***************************************************************************)
(* The session (src/app.py)                                                *)
(***************************************************************************)
CATEGORIES == <<<<"G", "r", "o", "c", "e", "r", "i", "e", "s">>, <<"D", "i", "n", "i", "n", "g">>, <<"T", "r", "a", "n", "s", "p", "o", "r", "t">>, <<"U", "t", "i", "l", "i", "t", "i", "e", "s">>, <<"S", "h", "o", "p", "p", "i", "n", "g">>,
                <<"E", "n", "t", "e", "r", "t", "a", "i", "n", "m", "e", "n", "t">>, <<"H", "e", "a", "l", "t", "h">>, <<"H", "o", "u", "s", "i", "n", "g">>, IncomeLabel, OtherLabel>>

\* a date dateparser could not parse
NaT == <<>>

\* preprocess_data: rows without a date are dropped, Month is the first of the
\* date's month; the amounts are numeric already
preprocess_data(table) ==
    LET HasDate(r) == r.Date # NaT
        kept == SelectSeq(table, HasDate)
    IN  [i \in DOMAIN kept |->
            [Date |-> kept[i].Date, Description |-> kept[i].Description,
             Amount |-> kept[i].Amount,
             Month |-> <<kept[i].Date[1], kept[i].Date[2]>>]]

\* str.split(): the maximal runs of characters that are not whitespace
RECURSIVE Split(_)
Split(s) ==
    LET t == LStrip(s)
        n == IF \E i \in DOMAIN t : IsSpace(t[i])
             THEN (CHOOSE i \in DOMAIN t :
                       IsSpace(t[i]) /\ \A j \in 1..(i - 1) : ~IsSpace(t[j])) - 1
             ELSE Len(t)
    IN  IF t = <<>> THEN <<>>
        ELSE <<SubSeq(t, 1, n)>> \o Split(SubSeq(t, n + 1, Len(t)))

\* for k in kws: if k.lower() not in rules[cat]: rules[cat].append(k.lower())
RECURSIVE AppendKeywords(_, _)
AppendKeywords(have, kws) ==
    IF kws = <<>> THEN have
    ELSE LET k == Lower(Head(kws))
         IN  IF k \in Range(have)
             THEN AppendKeywords(have, Tail(kws))
             ELSE AppendKeywords(Append(have, k), Tail(kws))

\* a variant that re-inserts the category at the end of the dict
add_rule_reinsert(rs, new_rule) ==
    LET parts == Split(Strip(new_rule))
        cat == parts[1]
        NotCat(e) == e.cat # cat
    IN  IF Len(parts) >= 2
        THEN Append(SelectSeq(rs, NotCat),
                    [cat |-> cat, kws |-> AppendKeywords(RulesGet(rs, cat), Tail(parts))])
        ELSE rs

\* the Add rule handler's effect on st.session_state.rules
add_rule(rs, new_rule) ==
    LET parts == Split(Strip(new_rule))
        cat == parts[1]
        rs1 == IF KeyIndex(rs, cat) = 0
               THEN Append(rs, [cat |-> cat, kws |-> <<>>])
               ELSE rs
        k == KeyIndex(rs1, cat)
    IN  IF Len(parts) >= 2
        THEN [rs1 EXCEPT ![k].kws = AppendKeywords(rs1[k].kws, Tail(parts))]
        ELSE rs

\* a run of the script's main flow on the cached upload
MainFlow(rs) == categorize_transactions(preprocess_data(uploaded), rs)

\* st.data_editor(df[edit_cols]): the table shown, with the cells the user typed
NoEdit == <<>>

edited ==
    [i \in DOMAIN df |->
        [Date |-> df[i].Date, Description |-> df[i].Description,
         Amount |-> df[i].Amount,
         Category |-> IF humanCat[i] # NoEdit THEN humanCat[i] ELSE df[i].Category]]

(***************************************************************************)
(* Specification of a session: a ledger is uploaded, the user adds rules  *)
(* and edits Category cells; every interaction re-runs the script.        *)
(***************************************************************************)
\* a rule set with no Income and no Other entry
SingleRule == << [cat |-> <<"A">>, kws |-> <<<<"x">>>>] >>

InitialRuleSets == {default_category_rules, SingleRule}

Row(date, desc, amount) == [Date |-> date, Description |-> desc, Amount |-> amount]

Ledgers ==
    {<<Row(<<2024, 3, 5>>, <<"w", "a", "l", "m", "a", "r", "t", ".", "c", "o", "m">>, -500)>>,
     <<Row(<<2024, 3, 5>>, <<"N", "e", "t", "f", "l", "i", "x", ".">>, -1599)>>,
     <<Row(<<2024, 3, 5>>, <<"A", "M", "A", "Z", "O", "N", " ", " ", "w", "a", "l", "m", "a", "r", "t">>, -500)>>,
     <<Row(<<2024, 3, 5>>, <<"p", "a", "y", "r", "o", "l", "l", " ", "u", "b", "e", "r">>, 700)>>,
     <<Row(<<2024, 3, 5>>, <<"U", "b", "e", "r", " ", "*", "t", "r", "i", "p">>, 700)>>,
     <<Row(<<2024, 3, 5>>, <<"U", "b", "e", "r", " ", "*", "t", "r", "i", "p">>, 0)>>,
     <<Row(<<2024, 3, 5>>, <<"z", "z", "z">>, -500)>>,
     <<Row(<<2024, 3, 5>>, <<"x">>, -500)>>,
     <<Row(<<2024, 3, 5>>, <<"x">>, 700)>>,
     <<Row(<<2024, 3, 5>>, <<"W", "A", "L", "-", "M", "A", "R", "T", " ", "#", "1", "2">>, -4000)>>,
     <<Row(<<2024, 3, 5>>, <<"w", "a", "l", "m", "a", "r", "t", ".", "c", "o", "m">>, -500), Row(NaT, <<"z", "z", "z">>, -500),
       Row(<<2024, 4, 1>>, <<"N", "e", "t", "f", "l", "i", "x", ".">>, -1599)>>}

\* what the user types into "Add rule (Category keywords...)"
RuleInputs ==
    {<<"S", "h", "o", "p", "p", "i", "n", "g", " ", "W", "A", "L", "-", "M", "A", "R", "T">>, <<"S", "h", "o", "p", "p", "i", "n", "g", " ", "w", "a", "l", "m", "a", "r", "t">>, <<"G", "r", "o", "c", "e", "r", "i", "e", "s", " ", "n", "e", "t", "f", "l", "i", "x">>,
     <<"P", "e", "t", "s", " ", "v", "e", "t", ".", "c", "o", "m", " ", " ", "z", "z", "z">>, <<"I", "n", "c", "o", "m", "e", " ", "u", "b", "e", "r">>, <<"B", " ", "u", "b", "e", "r", " ", "U", "B", "E", "R", " ", "x">>, <<"l", "o", "n", "e", "l", "y">>, <<" ", "\t">>}

\* what the user types into a Category cell
EditLabels == {<<"S", "h", "o", "p", "p", "i", "n", "g">>, OtherLabel}

MaxRuleAdds == 2

InitSession ==
    /\ rules \in InitialRuleSets
    /\ uploaded \in Ledgers
    /\ df = MainFlow(rules)
    /\ humanCat = [i \in DOMAIN df |-> NoEdit]
    /\ pc = "session"
    /\ clicks = 0
    /\ today = <<1, 1, 1>> /\ budgets = <<>> /\ question = <<>> /\ min_months = 0
    /\ text = <<>> /\ result = <<>>

\* st.button("Add rule") with new_rule in the text input, and the script run
AddRule(new_rule) ==
    /\ clicks < MaxRuleAdds
    /\ Strip(new_rule) # <<>>
    /\ clicks' = clicks + 1
    /\ rules' = add_rule(rules, new_rule)
    /\ df' = MainFlow(rules')
    /\ UNCHANGED <<uploaded, humanCat, today, budgets, question, min_months, text,
                   result, pc>>

\* the user sets row i's Category cell in the data editor, and the script run
EditCategory(i, c) ==
    /\ humanCat' = [humanCat EXCEPT ![i] = c]
    /\ df' = MainFlow(rules)
    /\ UNCHANGED <<rules, uploaded, today, budgets, question, min_months, text,
                   result, pc, clicks>>

\* any other interaction: the script runs again
Rerun ==
    /\ df' = MainFlow(rules)
    /\ UNCHANGED <<rules, uploaded, humanCat, today, budgets, question, min_months,
                   text, result, pc, clicks>>

Next ==
    \/ \E new_rule \in RuleInputs : AddRule(new_rule)
    \/ \E i \in DOMAIN df, c \in EditLabels : EditCategory(i, c)
    \/ Rerun

Spec == InitSession /\ [][Next]_vars

(***************************************************************************)
(* Claims about the session                                                *)
(***************************************************************************)
\* entry k of rs is not Income and has a keyword that is a substring of txt
MatchAt(rs, k, txt) ==
    /\ rs[k].cat # IncomeLabel
    /\ \E j \in DOMAIN rs[k].kws : Contains(txt, rs[k].kws[j])

FirstMatchWins ==
    \A i \in DOMAIN df :
        df[i].Amount <= 0 =>
            LET M == {k \in DOMAIN rules : MatchAt(rules, k, df[i].Normalized)}
            IN  IF M = {} THEN df[i].Category = OtherLabel
                ELSE \E k \in M : (\A j \in M : k <= j) /\ df[i].Category = rules[k].cat

\* a step keeps every entry at its position, with its keywords as a prefix
OrderKept ==
    \A k \in DOMAIN rules :
        /\ k \in DOMAIN rules'
        /\ rules'[k].cat = rules[k].cat
        /\ Len(rules[k].kws) <= Len(rules'[k].kws)
        /\ SubSeq(rules'[k].kws, 1, Len(rules[k].kws)) = rules[k].kws

\* a step that changes only entries declared after the one that matches a row
\* leaves the row's category alone
NoSteal ==
    LET Changed == {j \in DOMAIN rules' : j \notin DOMAIN rules \/ rules'[j] # rules[j]}
    IN  \A i \in DOMAIN df : \A k \in DOMAIN rules :
            ( /\ df[i].Amount <= 0
              /\ rules[k].cat = df[i].Category
              /\ MatchAt(rules, k, df[i].Normalized)
              /\ \A j \in Changed : j > k )
            => df'[i].Category = df[i].Category

\* C1: a row with amount <= 0 gets the earliest category in insertion order,
\* Income skipped, that has a keyword in the normalized description, and Other
\* when none has; add_rule keeps the order of the categories present, so a
\* keyword added to a later category never takes a row from an earlier one
\* that matches it.
C1_FirstMatchWins == []FirstMatchWins /\ [][OrderKept /\ NoSteal]_vars

\* "walmart" was added to Shopping and the walmart.com expense is still Groceries
C1_Witness ==
    /\ clicks > 0
    /\ <<"w", "a", "l", "m", "a", "r", "t">> \in Range(RulesGet(rules, <<"S", "h", "o", "p", "p", "i", "n", "g">>))
    /\ \E i \in DOMAIN df :
          /\ df[i].Description = <<"w", "a", "l", "m", "a", "r", "t", ".", "c", "o", "m">>
          /\ df[i].Amount <= 0
          /\ df[i].Category = <<"G", "r", "o", "c", "e", "r", "i", "e", "s">>

\* C2: once a human edit has set a row's category, the row keeps that value
\* through every later add_rule and script run.
C2_HumanEditFinal ==
    \A i \in DOMAIN df : humanCat[i] # NoEdit => df[i].Category = humanCat[i]

\* C3: categorize_row returns Income whenever amount > 0, whatever the
\* description and the rule set.
C3_PositiveIsIncome ==
    \A i \in DOMAIN df : df[i].Amount > 0 => df[i].Category = IncomeLabel

\* a positive row that matches another category's keyword, under rules that
\* have no Income entry and that add_rule has extended
C3_Witness ==
    /\ clicks > 0
    /\ KeyIndex(rules, IncomeLabel) = 0
    /\ \E i \in DOMAIN df :
          /\ df[i].Amount > 0
          /\ df[i].Category = IncomeLabel
          /\ \E k \in DOMAIN rules : MatchAt(rules, k, df[i].Normalized)

\* kw has a character outside [a-z0-9 ]
BadKeyword(kw) == \E j \in DOMAIN kw : ~IsKept(kw[j])

NeverMatches ==
    \A k \in DOMAIN rules : \A j \in DOMAIN rules[k].kws : \A i \in DOMAIN df :
        BadKeyword(rules[k].kws[j]) => ~Contains(df[i].Normalized, rules[k].kws[j])

\* rs is the default rule set, possibly extended by add_rule
FromDefault(rs) ==
    /\ Len(rs) >= Len(default_category_rules)
    /\ \A k \in DOMAIN default_category_rules :
          /\ rs[k].cat = default_category_rules[k].cat
          /\ Range(default_category_rules[k].kws) \subseteq Range(rs[k].kws)

WalmartComIsGroceries ==
    FromDefault(rules) =>
        \A i \in DOMAIN df :
            (df[i].Description = <<"w", "a", "l", "m", "a", "r", "t", ".", "c", "o", "m">> /\ df[i].Amount <= 0)
            => df[i].Category = <<"G", "r", "o", "c", "e", "r", "i", "e", "s">>

\* a step that adds keywords, all of them with a character outside [a-z0-9 ],
\* changes no row's category
BadKeywordAddIsInert ==
    LET Added == {kw \in UNION {Range(rules'[k].kws) : k \in DOMAIN rules'} :
                     \E k \in DOMAIN rules' :
                         /\ kw \in Range(rules'[k].kws)
                         /\ kw \notin Range(RulesGet(rules, rules'[k].cat))}
    IN  (rules' # rules /\ \A kw \in Added : BadKeyword(kw))
        => \A i \in DOMAIN df : df'[i].Category = df[i].Category

\* C10: a keyword with a character outside [a-z0-9 ] is never a substring of a
\* normalized description: adding one changes no row's category, and a
\* walmart.com expense is Groceries under the default rules.
C10_BadKeywordInert ==
    [](NeverMatches /\ WalmartComIsGroceries) /\ [][BadKeywordAddIsInert]_vars

\* "wal-mart" was added to Shopping and the walmart.com expense is Groceries
C10_Witness ==
    /\ <<"w", "a", "l", "-", "m", "a", "r", "t">> \in Range(RulesGet(rules, <<"S", "h", "o", "p", "p", "i", "n", "g">>))
    /\ FromDefault(rules)
    /\ \E i \in DOMAIN df :
          /\ df[i].Description = <<"w", "a", "l", "m", "a", "r", "t", ".", "c", "o", "m">>
          /\ df[i].Amount <= 0
          /\ df[i].Category = <<"G", "r", "o", "c", "e", "r", "i", "e", "s">>

(***************************************************************************)
(* Specification of the recurring charge detector: a ledger of at most    *)
(* MaxRecurringRows rows goes through the main flow and detect_recurring. *)
(***************************************************************************)
MaxRecurringRows == 5

RecurringRows ==
    {Row(<<2024, 1, 5>>, <<"N", "e", "t", "f", "l", "i", "x">>, -999),
     Row(<<2024, 2, 20>>, <<"N", "E", "T", "F", "L", "I", "X">>, -1040),
     Row(<<2025, 1, 5>>, <<"N", "e", "t", "f", "l", "i", "x">>, -999),
     Row(<<2024, 3, 5>>, <<"N", "e", "t", "f", "l", "i", "x">>, 999),
     Row(<<2024, 3, 9>>, <<"G", "y", "m">>, -999),
     Row(<<2024, 3, 12>>, <<"N", "e", "t", "f", "l", "i", "x">>, -1051)}

MinMonthsChoices == {2, 3}

InitRecurring ==
    /\ uploaded \in UNION {[1..n -> RecurringRows] : n \in 0..MaxRecurringRows}
    /\ min_months \in MinMonthsChoices
    /\ rules = default_category_rules
    /\ df = <<>> /\ humanCat = <<>> /\ today = <<1, 1, 1>> /\ budgets = <<>>
    /\ question = <<>> /\ text = <<>> /\ result = <<>> /\ clicks = 0
    /\ pc = "input"

DetectRecurring ==
    /\ pc = "input"
    /\ df' = MainFlow(rules)
    /\ result' = detect_recurring(df', min_months)
    /\ pc' = "detect_recurring"
    /\ UNCHANGED <<rules, uploaded, humanCat, today, budgets, question, min_months,
                   text, clicks>>

NextRecurring == DetectRecurring

SpecRecurring == InitRecurring /\ [][NextRecurring]_vars

\* the distinct calendar months in which the outflow rows of a key fall
DistinctMonths(n, a) ==
    {<<df[i].Date[1], df[i].Date[2]>> :
        i \in {j \in DOMAIN df :
                  /\ df[j].Amount < 0
                  /\ df[j].Normalized = n
                  /\ Round0(Abs(df[j].Amount)) = a}}

\* C6: detect_recurring returns a record for a (normalized merchant, rounded
\* absolute amount) key if and only if the key's outflow rows fall in at least
\* min_months distinct calendar months, however many rows a month holds.
C6_DistinctMonths ==
    pc = "detect_recurring" =>
        /\ \A i \in DOMAIN df :
              LET n == df[i].Normalized
                  a == Round0(Abs(df[i].Amount))
              IN  (\E r \in DOMAIN result :
                       result[r].Normalized = n /\ result[r].Rounded = a)
                  <=> Cardinality(DistinctMonths(n, a)) >= min_months
        /\ \A r \in DOMAIN result :
              Cardinality(DistinctMonths(result[r].Normalized, result[r].Rounded))
                  >= min_months

\* five outflow rows of one key in two distinct months, min_months = 3, and
\* the key is not returned
C6_Witness ==
    /\ pc = "detect_recurring"
    /\ min_months = 3
    /\ \E i \in DOMAIN df :
          LET n == df[i].Normalized
              a == Round0(Abs(df[i].Amount))
          IN  /\ Cardinality({j \in DOMAIN df :
                                  /\ df[j].Amount < 0
                                  /\ df[j].Normalized = n
                                  /\ Round0(Abs(df[j].Amount)) = a}) = 5
              /\ Cardinality(DistinctMonths(n, a)) = 2
              /\ \A r \in DOMAIN result :
                    ~(result[r].Normalized = n /\ result[r].Rounded = a)

\* a key with rows in three distinct months is returned for min_months = 3
C6_Returned ==
    /\ pc = "detect_recurring"
    /\ min_months = 3
    /\ \E r \in DOMAIN result :
          Cardinality(DistinctMonths(result[r].Normalized, result[r].Rounded)) = 3

(***************************************************************************)
(* Specification of the anomaly detector: a ledger of at most             *)
(* MaxAnomalyRows rows goes through the main flow and detect_anomalies.   *)
(***************************************************************************)
MaxAnomalyRows == 8

AnomalyRows ==
    {Row(<<2024, 3, 5>>, <<"S", "t", "a", "r", "b", "u", "c", "k", "s">>, -300),
     Row(<<2024, 3, 6>>, <<"S", "t", "a", "r", "b", "u", "c", "k", "s">>, -900),
     Row(<<2024, 3, 7>>, <<"A", "m", "a", "z", "o", "n">>, -300)}

InitAnomalies ==
    /\ uploaded \in UNION {[1..n -> AnomalyRows] : n \in 0..MaxAnomalyRows}
    /\ rules = default_category_rules
    /\ df = <<>> /\ humanCat = <<>> /\ today = <<1, 1, 1>> /\ budgets = <<>>
    /\ question = <<>> /\ min_months = 0 /\ text = <<>> /\ result = <<>>
    /\ clicks = 0
    /\ pc = "input"

DetectAnomalies ==
    /\ pc = "input"
    /\ df' = MainFlow(rules)
    /\ result' = detect_anomalies(df')
    /\ pc' = "detect_anomalies"
    /\ UNCHANGED <<rules, uploaded, humanCat, today, budgets, question, min_months,
                   text, clicks>>

NextAnomalies == DetectAnomalies

SpecAnomalies == InitAnomalies /\ [][NextAnomalies]_vars

\* the outflow rows of a category
ExpenseRows(cat) == {i \in DOMAIN df : df[i].Amount < 0 /\ df[i].Category = cat}

\* amounts, in cents, from a cent to nine dollars
FifthRowAmounts == {-1, -2, -10, -100, -300, -500, -900}

\* C7: the sample gate is exactly 5: a category with exactly 4 expense rows,
\* one of them large, yields no anomaly record, and adding a 5th normal-sized
\* expense row to that category can yield one.
C7_FifthRowCanFlag ==
    pc = "detect_anomalies" =>
        \A i \in DOMAIN df :
            LET G == ExpenseRows(df[i].Category)
            IN  ( /\ i \in G
                  /\ Cardinality(G) = MinSample - 1
                  /\ \A j \in G \ {i} : df[i].Amount < df[j].Amount )
                => /\ \A r \in DOMAIN result : result[r].Category # df[i].Category
                   /\ \E a \in FifthRowAmounts :
                         detect_anomalies(Append(df, [df[i] EXCEPT !.Amount = a])) # <<>>

\* C7 as amended: a category with at most 5 expense rows (4 or 5 in
\* particular, one of them as large as one likes) yields no anomaly record:
\* among n rows the population z-score is at most sqrt(n - 1), which is 2 for
\* n = 5; a category of 8 expense rows, seven equal and one larger, yields a
\* record for the larger one.
C7_NoRecordUpToFive ==
    pc = "detect_anomalies" =>
        /\ \A i \in DOMAIN df :
              Cardinality(ExpenseRows(df[i].Category)) <= MinSample
              => \A r \in DOMAIN result : result[r].Category # df[i].Category
        /\ \A i \in DOMAIN df :
              LET G == ExpenseRows(df[i].Category)
              IN  ( /\ i \in G
                    /\ Cardinality(G) = 8
                    /\ \A j \in G \ {i} : \A k \in G \ {i} :
                          df[j].Amount = df[k].Amount /\ df[i].Amount < df[j].Amount )
                  => \E r \in DOMAIN result : result[r].Row = i

\* a category of exactly 5 expense rows, one three times the others, and no
\* record
C7_Witness ==
    /\ pc = "detect_anomalies"
    /\ result = <<>>
    /\ \E i \in DOMAIN df :
          LET G == ExpenseRows(df[i].Category)
          IN  /\ i \in G
              /\ Cardinality(G) = MinSample
              /\ \A j \in G \ {i} : df[j].Amount = -300 /\ df[i].Amount = -900

\* a category of 8 expense rows with a record
C7_EightRowsFlagged ==
    /\ pc = "detect_anomalies"
    /\ \E r \in DOMAIN result : Cardinality(ExpenseRows(result[r].Category)) = 8

(***************************************************************************)
(* Specification of the insight generator: a ledger of at most            *)
(* MaxInsightRows rows goes through the main flow and generate_insights,  *)
(* under the sidebar's budgets and rules that know a "Pets" category.     *)
(***************************************************************************)
MaxInsightRows == 3

InsightRows ==
    {Row(<<2024, 3, 2>>, <<"A", "m", "a", "z", "o", "n">>, -13000),
     Row(<<2024, 3, 10>>, <<"A", "M", "A", "Z", "O", "N", " ", "P", "r", "i", "m", "e">>, -5050),
     Row(<<2024, 2, 28>>, <<"A", "m", "a", "z", "o", "n">>, -13000),
     Row(<<2024, 3, 3>>, <<"V", "e", "t", " ", "v", "i", "s", "i", "t">>, -8000),
     Row(<<2024, 3, 4>>, <<"A", "m", "a", "z", "o", "n", " ", "r", "e", "f", "u", "n", "d">>, 20000),
     Row(<<2024, 3, 5>>, <<"W", "a", "l", "m", "a", "r", "t">>, -4000)}

InsightTodays == {<<2024, 3, 15>>, <<2024, 2, 29>>}

\* budgets = {cat: st.number_input(...) for cat in CATEGORIES}, in cents
BudgetMaps ==
    {[c \in Range(CATEGORIES) |->
         IF c = <<"S", "h", "o", "p", "p", "i", "n", "g">> THEN s ELSE IF c = <<"G", "r", "o", "c", "e", "r", "i", "e", "s">> THEN g ELSE 0] :
        s \in {0, 10000, 13000}, g \in {0, 3000}}

InitInsights ==
    /\ uploaded \in UNION {[1..n -> InsightRows] : n \in 0..MaxInsightRows}
    /\ today \in InsightTodays
    /\ budgets \in BudgetMaps
    /\ rules = add_rule(default_category_rules, <<"P", "e", "t", "s", " ", "v", "e", "t">>)
    /\ df = <<>> /\ humanCat = <<>> /\ question = <<>> /\ min_months = 0
    /\ text = <<>> /\ result = <<>> /\ clicks = 0
    /\ pc = "input"

GenerateInsights ==
    /\ pc = "input"
    /\ df' = MainFlow(rules)
    /\ result' = generate_insights(df', budgets, today)
    /\ pc' = "generate_insights"
    /\ UNCHANGED <<rules, uploaded, humanCat, today, budgets, question, min_months,
                   text, clicks>>

NextInsights == GenerateInsights

SpecInsights == InitInsights /\ [][NextInsights]_vars

\* the summed absolute outflow of a label in the calendar month of today
RECURSIVE SpendThisMonth(_, _)
SpendThisMonth(cat, rows) ==
    IF rows = {} THEN 0
    ELSE LET i == CHOOSE j \in rows : TRUE
             counts == /\ df[i].Amount < 0
                       /\ df[i].Category = cat
                       /\ df[i].Date[1] = today[1]
                       /\ df[i].Date[2] = today[2]
         IN  (IF counts THEN -df[i].Amount ELSE 0) + SpendThisMonth(cat, rows \ {i})

\* the entries of the budget-alert lines
AlertEntries ==
    {e \in UNION {Range(result[l].items) :
                     l \in {k \in DOMAIN result : result[k].kind = "Budget alerts"}} : TRUE}

AlertLines == {l \in DOMAIN result : result[l].kind = "Budget alerts"}

\* C8: generate_insights emits a budget-alert entry for a category if and only
\* if its summed absolute outflow in the month of today strictly exceeds its
\* budget and that budget is > 0, the entry showing spend minus budget (to the
\* whole dollar); a budget of 0 or a category missing from the map is never
\* flagged, and the line is emitted only when some category is over.
C8_BudgetAlerts ==
    pc = "generate_insights" =>
        LET labels == {df[i].Category : i \in DOMAIN df} \cup DOMAIN budgets
            Budget(c) == IF c \in DOMAIN budgets THEN budgets[c] ELSE 0
            Spend(c) == SpendThisMonth(c, DOMAIN df)
            IsFlagged(c) == Budget(c) > 0 /\ Spend(c) > Budget(c)
        IN  /\ \A c \in labels :
                  (\E e \in AlertEntries : e.Category = c) <=> IsFlagged(c)
            /\ \A e \in AlertEntries :
                  /\ e.Category \in labels
                  /\ e.Over = Round0(Spend(e.Category) - Budget(e.Category))
            /\ Cardinality(AlertLines) <= 1
            /\ AlertLines # {} <=> \E c \in labels : IsFlagged(c)

\* Shopping is over its budget of $100 by $30 and is flagged, while Pets,
\* which has no budget, has spent this month and is not
C8_Witness ==
    /\ pc = "generate_insights"
    /\ budgets[<<"S", "h", "o", "p", "p", "i", "n", "g">>] = 10000
    /\ \E e \in AlertEntries : e.Category = <<"S", "h", "o", "p", "p", "i", "n", "g">> /\ e.Over = 30
    /\ \E i \in DOMAIN df :
          /\ df[i].Category = <<"P", "e", "t", "s">>
          /\ df[i].Date[2] = today[2]
          /\ \A e \in AlertEntries : e.Category # <<"P", "e", "t", "s">>

(***************************************************************************)
(* Specification of the question resolver: a ledger of at most            *)
(* MaxQuestionRows rows goes through the main flow and answer_question.   *)
(***************************************************************************)
MaxQuestionRows == 2

QuestionRows ==
    {Row(<<2023, 12, 1>>, <<"W", "a", "l", "m", "a", "r", "t">>, -4250),
     Row(<<2023, 12, 31>>, <<"K", "r", "o", "g", "e", "r">>, -1000),
     Row(<<2023, 11, 30>>, <<"W", "a", "l", "m", "a", "r", "t">>, -700),
     Row(<<2024, 1, 1>>, <<"W", "a", "l", "m", "a", "r", "t">>, -900),
     Row(<<2024, 2, 29>>, <<"A", "l", "d", "i">>, -300),
     Row(<<2024, 3, 1>>, <<"W", "a", "l", "m", "a", "r", "t">>, -600),
     Row(<<2023, 12, 15>>, <<"S", "t", "a", "r", "b", "u", "c", "k", "s">>, -1000),
     Row(<<2024, 2, 1>>, <<"V", "e", "t">>, -2000),
     Row(<<2024, 2, 10>>, <<"k", "i", "t", "t", "e", "n", " ", "f", "o", "o", "d">>, -150),
     Row(<<2023, 12, 20>>, <<"W", "a", "l", "m", "a", "r", "t", " ", "r", "e", "f", "u", "n", "d">>, 500)}

QuestionTodays == {<<2024, 1, 15>>, <<2024, 3, 31>>}

Questions ==
    {<<"H", "o", "w", " ", "m", "u", "c", "h", " ", "d", "i", "d", " ", "I", " ", "s", "p", "e", "n", "d", " ", "o", "n", " ", "g", "r", "o", "c", "e", "r", "i", "e", "s", " ", "l", "a", "s", "t", " ", "m", "o", "n", "t", "h", "?">>,
     <<"w", "h", "a", "t", " ", "d", "i", "d", " ", "I", " ", "S", "P", "E", "N", "D", " ", "o", "n", " ", "P", "e", "t", "s", " ", "l", "a", "s", "t", " ", "m", "o", "n", "t", "h">>,
     <<"s", "p", "e", "n", "d", " ", "o", "n", " ", "g", "r", "o", "c", "e", "r", "i", "e", "s", " ", "a", "n", "d", " ", "d", "i", "n", "i", "n", "g", " ", "l", "a", "s", "t", " ", "m", "o", "n", "t", "h">>,
     <<"i", "n", "c", "o", "m", "e", " ", "l", "a", "s", "t", " ", "m", "o", "n", "t", "h">>,
     <<"h", "o", "w", " ", "m", "u", "c", "h", " ", "d", "i", "d", " ", "i", " ", "s", "p", "e", "n", "d", " ", "o", "n", " ", "d", "i", "n", "i", "n", "g", " ", "i", "n", " ", "d", "e", "c", "e", "m", "b", "e", "r">>,
     <<"g", "r", "o", "c", "e", "r", "i", "e", "s", " ", "t", "o", "t", "a", "l">>}

InitQuestion ==
    /\ uploaded \in UNION {[1..n -> QuestionRows] : n \in 0..MaxQuestionRows}
    /\ today \in QuestionTodays
    /\ question \in Questions
    /\ rules = add_rule(add_rule(default_category_rules, <<"P", "e", "t", "s", " ", "v", "e", "t">>), <<"p", "e", "t", "s", " ", "k", "i", "t", "t", "e", "n">>)
    /\ df = <<>> /\ humanCat = <<>> /\ budgets = <<>> /\ min_months = 0
    /\ text = <<>> /\ result = <<>> /\ clicks = 0
    /\ pc = "input"

AnswerQuestion ==
    /\ pc = "input"
    /\ df' = MainFlow(rules)
    /\ result' = answer_question(df', question, today)
    /\ pc' = "answer_question"
    /\ UNCHANGED <<rules, uploaded, humanCat, today, budgets, question, min_months,
                   text, clicks>>

NextQuestion == AnswerQuestion

SpecQuestion == InitQuestion /\ [][NextQuestion]_vars

\* the labels of the table that the question names, whatever the case
NamedLabels ==
    {c \in {df[i].Category : i \in DOMAIN df} : Contains(Lower(question), Lower(c))}

\* the calendar month before today's, as <<year, month>>
PreviousMonth == IF today[2] = 1 THEN <<today[1] - 1, 12>> ELSE <<today[1], today[2] - 1>>

\* the sum of the absolute amounts of the outflow rows of label c in the
\* calendar month before today's
RECURSIVE SpentLastMonth(_, _)
SpentLastMonth(c, rows) ==
    IF rows = {} THEN 0
    ELSE LET i == CHOOSE j \in rows : TRUE
             counts == /\ df[i].Amount < 0
                       /\ df[i].Category = c
                       /\ <<df[i].Date[1], df[i].Date[2]>> = PreviousMonth
                       /\ df[i].Date[3] \in 1..DaysInMonth(PreviousMonth[1], PreviousMonth[2])
         IN  (IF counts THEN -df[i].Amount ELSE 0) + SpentLastMonth(c, rows \ {i})

\* C9: when the question contains "spend", "last month" and exactly one
\* category label c of the table, answer_question reports the sum of the
\* absolute amounts of exactly the rows with amount < 0, category c and a date
\* in the calendar month before today's: December of the previous year when
\* today is in January.
C9_SpendLastMonth ==
    ( /\ pc = "answer_question"
      /\ Contains(Lower(question), <<"s", "p", "e", "n", "d">>)
      /\ Contains(Lower(question), <<"l", "a", "s", "t", " ", "m", "o", "n", "t", "h">>)
      /\ Cardinality(NamedLabels) = 1 )
    => \A c \in NamedLabels :
           result = [kind |-> "You spent", cents |-> SpentLastMonth(c, DOMAIN df)]

\* today is in January, the question names Groceries, and the table holds a
\* December row that is counted and another row that is not
C9_Witness ==
    /\ pc = "answer_question"
    /\ today[2] = 1
    /\ Contains(Lower(question), <<"s", "p", "e", "n", "d">>)
    /\ Contains(Lower(question), <<"l", "a", "s", "t", " ", "m", "o", "n", "t", "h">>)
    /\ NamedLabels = {<<"G", "r", "o", "c", "e", "r", "i", "e", "s">>}
    /\ result.cents = 4250
    /\ Len(df) = 2

(***************************************************************************)
(* Specification of the normalizer: the input is any string over Alphabet *)
(* of at most MaxTextLen characters.                                       *)
(***************************************************************************)
MaxTextLen == 3

Alphabet == {"a", "A", "1", " ", ".", "\t"}

Texts == UNION {[1..n -> Alphabet] : n \in 0..MaxTextLen}

InitNormalize ==
    /\ text \in Texts
    /\ result = <<>>
    /\ pc = "input"
    /\ rules = <<>> /\ uploaded = <<>> /\ df = <<>> /\ humanCat = <<>>
    /\ today = <<1, 1, 1>> /\ budgets = <<>> /\ question = <<>> /\ min_months = 0
    /\ clicks = 0

\* normalize_text(x)
Normalize ==
    /\ pc = "input"
    /\ result' = normalize_text(text)
    /\ pc' = "normalized"
    /\ UNCHANGED <<rules, uploaded, df, humanCat, today, budgets, question,
                   min_months, text, clicks>>

\* normalize_text(normalize_text(x)): the output is fed back in
NormalizeAgain ==
    /\ pc = "normalized"
    /\ text' = result
    /\ result' = normalize_text(result)
    /\ pc' = "renormalized"
    /\ UNCHANGED <<rules, uploaded, df, humanCat, today, budgets, question,
                   min_months, clicks>>

NextNormalize == Normalize \/ NormalizeAgain

SpecNormalize == InitNormalize /\ [][NextNormalize]_vars

\* ^[a-z0-9]+( [a-z0-9]+)*$ or empty
WellFormed(s) ==
    /\ \A i \in DOMAIN s : IsKept(s[i])
    /\ s # <<>> => s[1] # " " /\ s[Len(s)] # " "
    /\ \A i \in 1..(Len(s) - 1) : ~(s[i] = " " /\ s[i + 1] = " ")

\* C4: the normalizer is idempotent: normalize_text(normalize_text(x)) equals
\* normalize_text(x) for every input string x.
C4_Idempotent == pc = "renormalized" => result = text

\* C5: the output of normalize_text is empty or lowercase alphanumeric tokens
\* separated by exactly one space, with no leading and no trailing space.
C5_WellFormed == pc = "normalized" => WellFormed(result)

====
